---- MODULE Spec2Model ----
(***************************************************************************)
(* Delivery-plan subsystem of the backend: RobotService (service/robot.go) *)
(* on top of OrderRepository (repository/product.go).                      *)
(*                                                                         *)
(* GenerateDeliveryPlan fetches the 'shipping' orders, solves a 0/1        *)
(* knapsack over them and sets the chosen orders to 'delivering', all in   *)
(* one transaction under a context.  UpdateOrderStatus is a single         *)
(* auto-commit status update.                                              *)
(***************************************************************************)
EXTENDS Integers, Sequences, FiniteSets, TLC

\* ---------------------------------------------------------------- bounds
MaxOrders == 2      \* rows of the orders table in the service runs
NumCalls  == 2      \* GenerateDeliveryPlan calls in flight
MaxUpdates == 2     \* UpdateStatuses calls made outside a transaction
MaxWeight == 1      \* products.weight ranges over 0..MaxWeight
MaxValue  == 1      \* products.value ranges over 1..MaxValue in the service runs
MaxCap    == 1      \* robot capacity ranges over -1..MaxCap
PlanOrders == 2     \* fetched orders in the planner runs
PlanWeight == 2     \* weights in the planner runs (0..PlanWeight)
PlanValue  == 2     \* values in the planner runs (0..PlanValue)
PlanCap    == 3     \* capacities in the planner runs (-1..PlanCap)
MaxTime    == 2     \* the clock runs over 0..MaxTime
MaxSessions == 1    \* sessions created
MaxDuration == 1    \* a session lasts 0..MaxDuration time units
NumFinders == 2     \* FindUserBySessionID calls in flight
NumListers == 2     \* ListProducts calls
MaxMinutes == 6     \* minutes the product cache is watched for
MaxImgKeys == 2     \* image cache keys
ImgMaxSize == 1     \* maxSize given to NewImageCache
ImgMaxAge  == 1     \* maxAge given to NewImageCache

\* ctx is polled in the forward fill when i%1000 == 0 (robot.go:105)
CheckInterval == 1000

Calls    == 1..NumCalls
Statuses == {"shipping", "delivering", "delivered"}

VARIABLES
  db,        \* orders JOIN products: order_id -> [weight, value, status]
  pc,        \* position of each GenerateDeliveryPlan call
  capacity,  \* capacity argument of each call
  ctxDone,   \* whether the call's ctx is cancelled / past its deadline
  fetched,   \* orders returned by GetShippingOrders in the call
  plan,      \* plan computed by selectOrdersForDelivery in the call
  txWrites,  \* order ids the call's open transaction has set to 'delivering'
  stale,     \* fetched order ids that another commit wrote since the fetch
  err,       \* error the call returned ("none" while running / on success)
  failedAt,  \* the step of the call that produced err
  changedBy, \* history: order ids whose status the call's commit changed
  wasDelivering, \* history: orders that went shipping->delivering before
  updates,   \* number of UpdateStatuses calls made outside a transaction
  ops,       \* history: store operations each call has invoked so far
  lastUpdate, \* history: arguments and result of the last UpdateStatuses
              \* call made outside a transaction
  now,       \* the clock (time.Now), in whole time units
  imgCache,  \* ImageCache.cache: key -> [Size, Timestamp]
  imgGot,    \* history: the last ImageCache.Get call and what it returned
  sessDb,    \* table user_sessions: session id -> [userID, expiresAt]
  sessCache, \* SessionRepository.cache: session id -> [userID, expiresAt]
  finder,    \* position and locals of each FindUserBySessionID call
  prodCache, \* ProductRepository.cache: key -> [result, timestamp]
  sf,        \* ProductRepository.sf: key -> the call in flight for it
  lister     \* position and locals of each ListProducts call

planVars == <<db, pc, capacity, ctxDone, fetched, plan, txWrites, stale, err,
              failedAt, changedBy, wasDelivering, updates, ops, lastUpdate>>

imageVars == <<imgCache, imgGot>>

sessionVars == <<sessDb, sessCache, finder>>

productVars == <<prodCache, sf, lister>>

cacheVars == <<now, imageVars, sessionVars, productVars>>

vars == <<planVars, cacheVars>>

\* ------------------------------------------------------------- helpers
Ids(orders) == {orders[k].OrderID : k \in 1..Len(orders)}

RECURSIVE SumWeight(_)
SumWeight(orders) ==
  IF orders = <<>> THEN 0
  ELSE orders[1].Weight + SumWeight(Tail(orders))

RECURSIVE SumValue(_)
SumValue(orders) ==
  IF orders = <<>> THEN 0
  ELSE orders[1].Value + SumValue(Tail(orders))

\* selectedOrders left as the reconstruction appended them
NoReverse(s) == s

\* slices.Reverse(selectedOrders)
Reverse(s) == [k \in 1..Len(s) |-> s[Len(s) + 1 - k]]

\* no store operation invoked yet / no UpdateStatuses call made yet
NoOps    == [fetch |-> 0, update |-> 0]
NoUpdate == [orderIDs |-> {}, newStatus |-> "", ret |-> "none"]

\* model.DeliveryPlan{} (the zero value returned next to an error)
ZeroPlan == [RobotID |-> 0, TotalWeight |-> 0, TotalValue |-> 0, Orders |-> <<>>]

\* ------------------------------------------- selectOrdersForDelivery
\* FillDP without the comparison of selectValue with dp[i][w]: an order that
\* fits is always taken
RECURSIVE FillDPAlwaysTake(_, _, _)
FillDPAlwaysTake(orders, cap, i) ==
  IF i = 0 THEN [k \in {0} |-> [w \in 0..cap |-> 0]]
  ELSE LET prev  == FillDPAlwaysTake(orders, cap, i - 1)
           order == orders[i]
           row   == [w \in 0..cap |->
                      IF order.Weight <= w
                      THEN prev[i-1][w - order.Weight] + order.Value
                      ELSE prev[i-1][w]]
       IN [k \in 0..i |-> IF k = i THEN row ELSE prev[k]]

\* dp rows 0..i of the forward fill: dp[i][w] for w in 0..cap
RECURSIVE FillDP(_, _, _)
FillDP(orders, cap, i) ==
  IF i = 0 THEN [k \in {0} |-> [w \in 0..cap |-> 0]]
  ELSE LET prev  == FillDP(orders, cap, i - 1)
           order == orders[i]
           row   == [w \in 0..cap |->
                      IF order.Weight <= w
                         /\ prev[i-1][w - order.Weight] + order.Value > prev[i-1][w]
                      THEN prev[i-1][w - order.Weight] + order.Value
                      ELSE prev[i-1][w]]
       IN [k \in 0..i |-> IF k = i THEN row ELSE prev[k]]

\* The k-th poll of ctx.Done() (counted over the whole call of
\* selectOrdersForDelivery) finds the context done iff k > okPolls.
FillPolls(n) == n \div CheckInterval

FillCancelled(n, okPolls) ==
  \E i \in 1..n : i % CheckInterval = 0 /\ (i \div CheckInterval) > okPolls

\* Walk without "w -= order.Weight"
RECURSIVE WalkKeepsWeight(_, _, _, _, _, _, _)
WalkKeepsWeight(orders, dp, i, w, sel, polled, okPolls) ==
  IF ~(i > 0 /\ w > 0) THEN [done |-> FALSE, sel |-> sel]
  ELSE IF polled + 1 > okPolls THEN [done |-> TRUE, sel |-> <<>>]
  ELSE LET order == orders[i] IN
       IF w >= order.Weight /\ dp[i-1][w - order.Weight] + order.Value = dp[i][w]
       THEN WalkKeepsWeight(orders, dp, i - 1, w, Append(sel, order),
                            polled + 1, okPolls)
       ELSE WalkKeepsWeight(orders, dp, i - 1, w, sel, polled + 1, okPolls)

\* Walk that selects order i only when leaving it out is worse
\* (dp[i][w] != dp[i-1][w]), the other usual way to trace a knapsack table
RECURSIVE WalkPrefersEarlier(_, _, _, _, _, _, _)
WalkPrefersEarlier(orders, dp, i, w, sel, polled, okPolls) ==
  IF ~(i > 0 /\ w > 0) THEN [done |-> FALSE, sel |-> sel]
  ELSE IF polled + 1 > okPolls THEN [done |-> TRUE, sel |-> <<>>]
  ELSE LET order == orders[i] IN
       IF dp[i][w] # dp[i-1][w]
       THEN WalkPrefersEarlier(orders, dp, i - 1, w - order.Weight,
                               Append(sel, order), polled + 1, okPolls)
       ELSE WalkPrefersEarlier(orders, dp, i - 1, w, sel, polled + 1, okPolls)

\* Walk that leaves the loop with what it has selected when ctx is done
RECURSIVE WalkBreaksOnDone(_, _, _, _, _, _, _)
WalkBreaksOnDone(orders, dp, i, w, sel, polled, okPolls) ==
  IF ~(i > 0 /\ w > 0) THEN [done |-> FALSE, sel |-> sel]
  ELSE IF polled + 1 > okPolls THEN [done |-> FALSE, sel |-> sel]
  ELSE LET order == orders[i] IN
       IF w >= order.Weight /\ dp[i-1][w - order.Weight] + order.Value = dp[i][w]
       THEN WalkBreaksOnDone(orders, dp, i - 1, w - order.Weight,
                             Append(sel, order), polled + 1, okPolls)
       ELSE WalkBreaksOnDone(orders, dp, i - 1, w, sel, polled + 1, okPolls)

\* The reconstruction loop from row i with remaining weight w; polled is the
\* number of ctx polls made so far.  Yields the selection in visiting order
\* (last order first), or "cancel" in field done.
RECURSIVE Walk(_, _, _, _, _, _, _)
Walk(orders, dp, i, w, sel, polled, okPolls) ==
  IF ~(i > 0 /\ w > 0) THEN [done |-> FALSE, sel |-> sel]
  ELSE IF polled + 1 > okPolls THEN [done |-> TRUE, sel |-> <<>>]
  ELSE LET order == orders[i] IN
       IF w >= order.Weight /\ dp[i-1][w - order.Weight] + order.Value = dp[i][w]
       THEN Walk(orders, dp, i - 1, w - order.Weight, Append(sel, order),
                 polled + 1, okPolls)
       ELSE Walk(orders, dp, i - 1, w, sel, polled + 1, okPolls)

\* AdjustedOrders with the loop index i in place of order.OrderID
AdjustedOrdersByIndex(selectedOrders) ==
  [k \in 1..Len(selectedOrders) |->
     [OrderID |-> k - 1,
      Weight  |-> selectedOrders[k].Weight,
      Value   |-> selectedOrders[k].Value]]

\* adjustedOrders[i] = model.Order{OrderID, Weight, Value of selectedOrders[i]}
AdjustedOrders(selectedOrders) ==
  [k \in 1..Len(selectedOrders) |->
     [OrderID |-> selectedOrders[k].OrderID,
      Weight  |-> selectedOrders[k].Weight,
      Value   |-> selectedOrders[k].Value]]

\* selectOrdersForDelivery that returns, next to ctx.Err(), the plan built
\* from what the reconstruction had selected when it saw ctx done
selectOrdersPartialOnCancel(orders, robotID, robotCapacity, okPolls) ==
  LET n == Len(orders) IN
  IF n = 0
  THEN [kind |-> "plan",
        plan |-> [RobotID |-> robotID, TotalWeight |-> 0, TotalValue |-> 0,
                  Orders |-> <<>>]]
  ELSE IF robotCapacity < 0
  THEN [kind |-> "panic", plan |-> ZeroPlan]
  ELSE IF FillCancelled(n, okPolls)
  THEN [kind |-> "cancel", plan |-> ZeroPlan]
  ELSE LET dp        == FillDP(orders, robotCapacity, n)
           bestValue == dp[n][robotCapacity]
           walk      == WalkBreaksOnDone(orders, dp, n, robotCapacity, <<>>,
                                         FillPolls(n), okPolls)
           full      == Walk(orders, dp, n, robotCapacity, <<>>,
                             FillPolls(n), okPolls)
           selectedOrders == Reverse(walk.sel)
       IN [kind |-> IF full.done THEN "cancel" ELSE "plan",
           plan |-> [RobotID     |-> robotID,
                     TotalWeight |-> SumWeight(selectedOrders),
                     TotalValue  |-> bestValue,
                     Orders      |-> AdjustedOrders(selectedOrders)]]

selectOrdersForDelivery(orders, robotID, robotCapacity, okPolls) ==
  LET n == Len(orders) IN
  IF n = 0
  THEN [kind |-> "plan",
        plan |-> [RobotID |-> robotID, TotalWeight |-> 0, TotalValue |-> 0,
                  Orders |-> <<>>]]
  ELSE IF robotCapacity < 0
  THEN [kind |-> "panic", plan |-> ZeroPlan]   \* make / index out of range
  ELSE IF FillCancelled(n, okPolls)
  THEN [kind |-> "cancel", plan |-> ZeroPlan]
  ELSE LET dp        == FillDP(orders, robotCapacity, n)
           bestValue == dp[n][robotCapacity]
           walk      == Walk(orders, dp, n, robotCapacity, <<>>,
                             FillPolls(n), okPolls)
           selectedOrders == Reverse(walk.sel)
           adjustedOrders == AdjustedOrders(selectedOrders)
       IN IF walk.done
          THEN [kind |-> "cancel", plan |-> ZeroPlan]
          ELSE [kind |-> "plan",
                plan |-> [RobotID     |-> robotID,
                          TotalWeight |-> SumWeight(selectedOrders),
                          TotalValue  |-> bestValue,
                          Orders      |-> adjustedOrders]]

\* number of ctx polls selectOrdersForDelivery can make on n orders
MaxPolls(n) == FillPolls(n) + n

\* --------------------------------------------------- OrderRepository
\* GetShippingOrders without "WHERE o.shipped_status = 'shipping'"
GetShippingOrdersAll(d) ==
  [k \in 1..Cardinality(DOMAIN d) |->
     [OrderID |-> k, Weight |-> d[k].weight, Value |-> d[k].value]]

\* SELECT o.order_id, p.weight, p.value ... WHERE o.shipped_status = 'shipping'
\* ORDER BY o.created_at ASC  (order ids are handed out in creation order)
GetShippingOrders(d) ==
  LET n   == Cardinality(DOMAIN d)
      all == [k \in 1..n |-> [OrderID |-> k, Weight |-> d[k].weight,
                              Value |-> d[k].value]]
  IN SelectSeq(all, LAMBDA o : d[o.OrderID].status = "shipping")

\* UPDATE orders SET shipped_status = ? WHERE order_id IN (?)
UpdateStatuses(d, orderIDs, newStatus) ==
  [id \in DOMAIN d |-> IF id \in orderIDs
                       THEN [d[id] EXCEPT !.status = newStatus]
                       ELSE d[id]]

\* ------------------------------------------------------ bookkeeping
InTx(c) == pc[c] \in {"fetched", "planned", "updated"}

\* rows whose status differs between two states of the table
Changed(d, e) == {id \in DOMAIN d : d[id].status # e[id].status}

\* a committed write of the rows ids invalidates what open transactions read
MarkStale(self, ids) ==
  [c \in Calls |-> IF c # self /\ InTx(c)
                   THEN stale[c] \cup (ids \cap Ids(fetched[c]))
                   ELSE stale[c]]

ToDelivering(d, e) ==
  {id \in DOMAIN d : d[id].status = "shipping" /\ e[id].status = "delivering"}

\* the call ends with error e: the transaction is rolled back and the call
\* returns nil, err; its locals go out of scope
Fail(c, e) ==
  /\ pc' = [pc EXCEPT ![c] = "returned"]
  /\ err' = [err EXCEPT ![c] = e]
  /\ failedAt' = [failedAt EXCEPT ![c] = pc[c]]
  /\ txWrites' = [txWrites EXCEPT ![c] = {}]
  /\ fetched' = [fetched EXCEPT ![c] = <<>>]
  /\ plan' = [plan EXCEPT ![c] = ZeroPlan]
  /\ stale' = [stale EXCEPT ![c] = {}]

\* ------------------------------------------ GenerateDeliveryPlan steps
\* entry: utils.WithTimeout derives the ctx, store.ExecTx opens the transaction
Call(c, cap) ==
  /\ pc[c] = "idle"
  /\ pc' = [pc EXCEPT ![c] = "begun"]
  /\ capacity' = [capacity EXCEPT ![c] = cap]
  /\ UNCHANGED <<db, ctxDone, fetched, plan, txWrites, stale, err, failedAt,
                 changedBy, wasDelivering, updates, ops, lastUpdate>>
  /\ UNCHANGED cacheVars

\* the caller cancels the context or its deadline passes
Cancel(c) ==
  /\ pc[c] \in {"begun", "fetched", "planned", "updated", "committed"}
  /\ ~ctxDone[c]
  /\ ctxDone' = [ctxDone EXCEPT ![c] = TRUE]
  /\ UNCHANGED <<db, pc, capacity, fetched, plan, txWrites, stale, err,
                 failedAt, changedBy, wasDelivering, updates, ops, lastUpdate>>
  /\ UNCHANGED cacheVars

\* Fetch that calls GetShippingOrders once more after a store error
FetchRetries(c) ==
  /\ pc[c] = "begun"
  /\ \/ /\ ~ctxDone[c]
        /\ pc' = [pc EXCEPT ![c] = "fetched"]
        /\ fetched' = [fetched EXCEPT ![c] = GetShippingOrders(db)]
        /\ UNCHANGED <<err, failedAt, txWrites, plan, stale>>
     \/ /\ ~ctxDone[c] /\ ops[c].fetch = 0
        /\ UNCHANGED <<pc, fetched, err, failedAt, txWrites, plan, stale>>
     \/ Fail(c, IF ctxDone[c] THEN "cancel" ELSE "store")
  /\ ops' = [ops EXCEPT ![c].fetch = @ + 1]
  /\ UNCHANGED <<db, capacity, ctxDone, changedBy, wasDelivering, updates,
                 lastUpdate>>
  /\ UNCHANGED cacheVars

\* orders, err := txStore.OrderRepo.GetShippingOrders(ctx)
Fetch(c) ==
  /\ pc[c] = "begun"
  /\ \/ /\ ~ctxDone[c]
        /\ pc' = [pc EXCEPT ![c] = "fetched"]
        /\ fetched' = [fetched EXCEPT ![c] = GetShippingOrders(db)]
        /\ UNCHANGED <<err, failedAt, txWrites, plan, stale>>
     \/ Fail(c, IF ctxDone[c] THEN "cancel" ELSE "store")
  /\ ops' = [ops EXCEPT ![c].fetch = @ + 1]
  /\ UNCHANGED <<db, capacity, ctxDone, changedBy, wasDelivering, updates,
                 lastUpdate>>
  /\ UNCHANGED cacheVars

\* plan, err = selectOrdersForDelivery(ctx, orders, robotID, capacity)
Select(c) ==
  /\ pc[c] = "fetched"
  /\ \E okPolls \in 0..MaxPolls(Len(fetched[c])) :
       LET r == selectOrdersForDelivery(fetched[c], c, capacity[c],
                                        IF ctxDone[c] THEN 0 ELSE okPolls)
       IN \/ /\ r.kind = "plan"
             /\ pc' = [pc EXCEPT ![c] = "planned"]
             /\ plan' = [plan EXCEPT ![c] = r.plan]
             /\ UNCHANGED <<err, failedAt, txWrites, fetched, stale, ctxDone>>
          \/ /\ r.kind = "cancel"
             /\ ctxDone' = [ctxDone EXCEPT ![c] = TRUE]
             /\ Fail(c, "cancel")
          \/ /\ r.kind = "panic"
             /\ pc' = [pc EXCEPT ![c] = "panicked"]
             /\ err' = [err EXCEPT ![c] = "panic"]
             /\ failedAt' = [failedAt EXCEPT ![c] = pc[c]]
             /\ fetched' = [fetched EXCEPT ![c] = <<>>]
             /\ stale' = [stale EXCEPT ![c] = {}]
             /\ UNCHANGED <<txWrites, plan, ctxDone>>
  /\ UNCHANGED <<db, capacity, changedBy, wasDelivering, updates, ops,
                 lastUpdate>>
  /\ UNCHANGED cacheVars

\* PlanOrderIDs with the loop over plan.Orders starting at the second order
PlanOrderIDsSkipFirst(p) == {p.Orders[k].OrderID : k \in 2..Len(p.Orders)}

\* orderIDs[i] = order.OrderID for the orders of the plan
PlanOrderIDs(p) == Ids(p.Orders)

\* Update through s.store.OrderRepo in place of txStore.OrderRepo: the
\* statement is committed on its own, outside the transaction
UpdateOutsideTx(c) ==
  /\ pc[c] = "planned"
  /\ \/ /\ Len(plan[c].Orders) > 0
        /\ \/ /\ ~ctxDone[c]
              /\ pc' = [pc EXCEPT ![c] = "updated"]
              /\ LET d == UpdateStatuses(db, PlanOrderIDs(plan[c]), "delivering")
                 IN /\ db' = d
                    /\ changedBy' = [changedBy EXCEPT ![c] = Changed(db, d)]
                    /\ wasDelivering' = wasDelivering \cup ToDelivering(db, d)
              /\ stale' = MarkStale(c, PlanOrderIDs(plan[c]))
              /\ UNCHANGED <<err, failedAt, fetched, plan, txWrites>>
           \/ /\ Fail(c, IF ctxDone[c] THEN "cancel" ELSE "store")
              /\ UNCHANGED <<db, changedBy, wasDelivering>>
        /\ ops' = [ops EXCEPT ![c].update = @ + 1]
     \/ /\ Len(plan[c].Orders) = 0
        /\ pc' = [pc EXCEPT ![c] = "updated"]
        /\ UNCHANGED <<err, failedAt, txWrites, fetched, plan, stale, db,
                       changedBy, wasDelivering, ops>>
  /\ UNCHANGED <<capacity, ctxDone, updates, lastUpdate>>
  /\ UNCHANGED cacheVars

\* Update that issues UpdateStatuses a second time before it goes on
UpdateTwice(c) ==
  /\ pc[c] = "planned"
  /\ \/ /\ Len(plan[c].Orders) > 0
        /\ \/ /\ ~ctxDone[c]
              /\ pc' = [pc EXCEPT ![c] = IF ops[c].update = 0 THEN "planned"
                                         ELSE "updated"]
              /\ txWrites' = [txWrites EXCEPT ![c] = PlanOrderIDs(plan[c])]
              /\ UNCHANGED <<err, failedAt, fetched, plan, stale>>
           \/ Fail(c, IF ctxDone[c] THEN "cancel" ELSE "store")
        /\ ops' = [ops EXCEPT ![c].update = @ + 1]
     \/ /\ Len(plan[c].Orders) = 0
        /\ pc' = [pc EXCEPT ![c] = "updated"]
        /\ UNCHANGED <<err, failedAt, txWrites, fetched, plan, stale, ops>>
  /\ UNCHANGED <<db, capacity, ctxDone, changedBy, wasDelivering, updates,
                 lastUpdate>>
  /\ UNCHANGED cacheVars

\* if len(plan.Orders) > 0 { UpdateStatuses(ctx, orderIDs, "delivering") }
Update(c) ==
  /\ pc[c] = "planned"
  /\ \/ /\ Len(plan[c].Orders) > 0
        /\ \/ /\ ~ctxDone[c]
              /\ pc' = [pc EXCEPT ![c] = "updated"]
              /\ txWrites' = [txWrites EXCEPT ![c] = PlanOrderIDs(plan[c])]
              /\ UNCHANGED <<err, failedAt, fetched, plan, stale>>
           \/ Fail(c, IF ctxDone[c] THEN "cancel" ELSE "store")
        /\ ops' = [ops EXCEPT ![c].update = @ + 1]
     \/ /\ Len(plan[c].Orders) = 0
        /\ pc' = [pc EXCEPT ![c] = "updated"]
        /\ UNCHANGED <<err, failedAt, txWrites, fetched, plan, stale, ops>>
  /\ UNCHANGED <<db, capacity, ctxDone, changedBy, wasDelivering, updates,
                 lastUpdate>>
  /\ UNCHANGED cacheVars

\* the rows a transaction may not commit: another commit wrote them after
\* this transaction read them
Conflicts(c) == txWrites[c] \cap stale[c]

\* Commit that does not look at the context
CommitIgnoresCtx(c) ==
  /\ pc[c] = "updated"
  /\ \/ /\ Conflicts(c) = {}
        /\ LET d == UpdateStatuses(db, txWrites[c], "delivering")
           IN /\ db' = d
              /\ changedBy' = [changedBy EXCEPT ![c] = Changed(db, d)]
              /\ wasDelivering' = wasDelivering \cup ToDelivering(db, d)
        /\ stale' = [MarkStale(c, txWrites[c]) EXCEPT ![c] = {}]
        /\ pc' = [pc EXCEPT ![c] = "committed"]
        /\ txWrites' = [txWrites EXCEPT ![c] = {}]
        /\ UNCHANGED <<err, failedAt, plan, fetched>>
     \/ /\ Fail(c, IF Conflicts(c) # {} THEN "conflict" ELSE "store")
        /\ UNCHANGED <<db, changedBy, wasDelivering>>
  /\ UNCHANGED <<capacity, ctxDone, updates, ops, lastUpdate>>
  /\ UNCHANGED cacheVars

\* ExecTx: fn returned nil, the transaction commits (or fails and rolls back)
Commit(c) ==
  /\ pc[c] = "updated"
  /\ \/ /\ ~ctxDone[c]
        /\ Conflicts(c) = {}
        /\ LET d == UpdateStatuses(db, txWrites[c], "delivering")
           IN /\ db' = d
              /\ changedBy' = [changedBy EXCEPT ![c] = Changed(db, d)]
              /\ wasDelivering' = wasDelivering \cup ToDelivering(db, d)
        /\ stale' = [MarkStale(c, txWrites[c]) EXCEPT ![c] = {}]
        /\ pc' = [pc EXCEPT ![c] = "committed"]
        /\ txWrites' = [txWrites EXCEPT ![c] = {}]
        /\ UNCHANGED <<err, failedAt, plan, fetched>>
     \/ /\ Fail(c, IF ctxDone[c] THEN "cancel"
                   ELSE IF Conflicts(c) # {} THEN "conflict" ELSE "store")
        /\ UNCHANGED <<db, changedBy, wasDelivering>>
  /\ UNCHANGED <<capacity, ctxDone, updates, ops, lastUpdate>>
  /\ UNCHANGED cacheVars

\* return &plan, nil
Return(c) ==
  /\ pc[c] = "committed"
  /\ pc' = [pc EXCEPT ![c] = "returned"]
  /\ fetched' = [fetched EXCEPT ![c] = <<>>]
  /\ UNCHANGED <<db, capacity, ctxDone, plan, txWrites, stale, err, failedAt,
                 changedBy, wasDelivering, updates, ops, lastUpdate>>
  /\ UNCHANGED cacheVars

\* ---------------------------------------------------- UpdateOrderStatus
\* OrderRepo.UpdateStatuses(ctx, orderIDs, newStatus) on the store itself
\* (auto-commit): an empty list returns nil without a query; otherwise the one
\* UPDATE statement takes effect on the rows it matches and nil is returned,
\* or ExecContext fails, nothing is changed and the error is returned
StoreUpdateStatuses(orderIDs, newStatus) ==
  /\ updates < MaxUpdates
  /\ updates' = updates + 1
  /\ \/ /\ LET d == UpdateStatuses(db, orderIDs, newStatus)
           IN /\ db' = d
              /\ wasDelivering' = wasDelivering \cup ToDelivering(db, d)
        /\ stale' = MarkStale(0, orderIDs \cap DOMAIN db)
        /\ lastUpdate' = [orderIDs |-> orderIDs, newStatus |-> newStatus,
                          ret |-> "nil"]
     \/ /\ orderIDs # {}
        /\ lastUpdate' = [orderIDs |-> orderIDs, newStatus |-> newStatus,
                          ret |-> "err"]
        /\ UNCHANGED <<db, wasDelivering, stale>>
  /\ UNCHANGED <<pc, capacity, ctxDone, fetched, plan, txWrites, err, failedAt,
                 changedBy, ops>>
  /\ UNCHANGED cacheVars

\* UpdateOrderStatus with the whole table in place of []int64{orderID}
UpdateOrderStatusAll(orderID, newStatus) ==
  StoreUpdateStatuses(DOMAIN db, newStatus)

\* s.store.OrderRepo.UpdateStatuses(ctx, []int64{orderID}, newStatus)
UpdateOrderStatus(orderID, newStatus) ==
  StoreUpdateStatuses({orderID}, newStatus)

\* ----------------------------------------------------------- the clock
Tick ==
  /\ now < MaxTime
  /\ now' = now + 1
  /\ UNCHANGED <<planVars, imageVars, sessionVars, productVars>>

\* a map without the key k / with the entry e under the key k
Remove(cache, k) == [j \in DOMAIN cache \ {k} |-> cache[j]]
Put(cache, k, e) == [j \in DOMAIN cache \cup {k} |-> IF j = k THEN e ELSE cache[j]]

\* ---------------------------------------------------------- ImageCache
ImgKeys == 1..MaxImgKeys

NoGet == [key |-> 0, found |-> FALSE, size |-> 0, at |-> 0]

\* totalSize += entry.Size over the entries of the cache
RECURSIVE SizeOf(_, _)
SizeOf(cache, keys) ==
  IF keys = {} THEN 0
  ELSE LET k == CHOOSE x \in keys : TRUE
       IN cache[k].Size + SizeOf(cache, keys \ {k})

TotalSize(cache) == SizeOf(cache, DOMAIN cache)

shouldEvict(cache, newSize) == TotalSize(cache) + newSize > ImgMaxSize

\* evictOldest deletes one entry with the least Timestamp; which of several
\* equally old entries the range over the map meets first is not determined
evictOldest(cache) ==
  IF DOMAIN cache = {} THEN {cache}
  ELSE {Remove(cache, k) :
          k \in {x \in DOMAIN cache :
                  \A y \in DOMAIN cache :
                    cache[x].Timestamp <= cache[y].Timestamp}}

\* Set(key, data, contentType), size = len(data)
ImageCacheSet(key, size) ==
  /\ IF size > ImgMaxSize
     THEN imgCache' = imgCache
     ELSE \E c \in (IF shouldEvict(imgCache, size)
                    THEN evictOldest(imgCache) ELSE {imgCache}) :
            imgCache' = Put(c, key, [Size |-> size, Timestamp |-> now])
  /\ UNCHANGED <<planVars, sessionVars, productVars, now, imgGot>>

\* Get without the check of time.Since(entry.Timestamp) against maxAge
ImageCacheGetAnyAge(key) ==
  /\ imgGot' = IF key \in DOMAIN imgCache
               THEN [key |-> key, found |-> TRUE, size |-> imgCache[key].Size,
                     at |-> now]
               ELSE [key |-> key, found |-> FALSE, size |-> 0, at |-> now]
  /\ UNCHANGED <<planVars, sessionVars, productVars, now, imgCache>>

\* Get(key): a hit needs the entry and time.Since(entry.Timestamp) <= maxAge
ImageCacheGet(key) ==
  /\ imgGot' = IF key \in DOMAIN imgCache
                  /\ ~(now - imgCache[key].Timestamp > ImgMaxAge)
               THEN [key |-> key, found |-> TRUE, size |-> imgCache[key].Size,
                     at |-> now]
               ELSE [key |-> key, found |-> FALSE, size |-> 0, at |-> now]
  /\ UNCHANGED <<planVars, sessionVars, productVars, now, imgCache>>

\* cleanupExpired, run by the ticker of startCleanup
cleanupExpired ==
  /\ imgCache' = [k \in {x \in DOMAIN imgCache :
                           ~(now - imgCache[x].Timestamp > ImgMaxAge)}
                   |-> imgCache[k]]
  /\ UNCHANGED <<planVars, sessionVars, productVars, now, imgGot>>

InitImage ==
  /\ imgCache = <<>>
  /\ imgGot = NoGet

\* --------------------------------------------------- SessionRepository
Finders    == 1..NumFinders
SessionIDs == 1..MaxSessions

NoEntry    == [userID |-> 0, expiresAt |-> 0]
IdleFinder == [pc |-> "idle", sid |-> 0, cached |-> NoEntry, userID |-> 0,
               t0 |-> 0, at |-> 0, via |-> "none", ret |-> 0,
               err |-> "none"]

\* NewSessionRepository: the process starts with an empty cache; the table
\* keeps the sessions stored before
NewSessionRepository ==
  /\ sessCache' = <<>>
  /\ finder' = [p \in Finders |-> IdleFinder]
  /\ UNCHANGED <<planVars, imageVars, productVars, now, sessDb>>

\* Create(ctx, userBusinessID, duration): a new uuid, the row, the cache entry
SessionCreate(userBusinessID, duration) ==
  LET sid   == Cardinality(DOMAIN sessDb) + 1
      entry == [userID |-> userBusinessID, expiresAt |-> now + duration]
  IN /\ sid \in SessionIDs
     /\ \/ /\ sessDb' = Put(sessDb, sid, entry)
           /\ sessCache' = Put(sessCache, sid, entry)
        \/ UNCHANGED <<sessDb, sessCache>>     \* ExecContext failed
     /\ UNCHANGED <<planVars, imageVars, productVars, now, finder>>

\* cached, exists := r.cache[sessionID] under the read lock
FindLookup(p, sessionID) ==
  /\ finder[p].pc \in {"idle", "done"}
  /\ finder' = [finder EXCEPT ![p] =
       [IdleFinder EXCEPT
          !.sid = sessionID, !.t0 = now,
          !.pc = IF sessionID \in DOMAIN sessCache THEN "cached" ELSE "query",
          !.cached = IF sessionID \in DOMAIN sessCache
                     THEN sessCache[sessionID] ELSE NoEntry]]
  /\ UNCHANGED <<planVars, imageVars, productVars, now, sessDb, sessCache>>

\* FindCheckCached without time.Now().Before(cached.expiresAt)
FindCheckCachedAnyAge(p) ==
  /\ finder[p].pc = "cached"
  /\ finder' = [finder EXCEPT ![p].pc = "done", ![p].at = now,
                              ![p].via = "cache",
                              ![p].ret = finder[p].cached.userID,
                              ![p].err = "nil"]
  /\ UNCHANGED <<planVars, imageVars, productVars, now, sessDb, sessCache>>

\* if time.Now().Before(cached.expiresAt) { return cached.userID, nil }
FindCheckCached(p) ==
  /\ finder[p].pc = "cached"
  /\ finder' = IF now < finder[p].cached.expiresAt
               THEN [finder EXCEPT ![p].pc = "done", ![p].at = now,
                                   ![p].via = "cache",
                                   ![p].ret = finder[p].cached.userID,
                                   ![p].err = "nil"]
               ELSE [finder EXCEPT ![p].pc = "expired", ![p].at = now]
  /\ UNCHANGED <<planVars, imageVars, productVars, now, sessDb, sessCache>>

\* delete(r.cache, sessionID) under the write lock
FindDeleteCached(p) ==
  /\ finder[p].pc = "expired"
  /\ sessCache' = Remove(sessCache, finder[p].sid)
  /\ finder' = [finder EXCEPT ![p].pc = "query"]
  /\ UNCHANGED <<planVars, imageVars, productVars, now, sessDb>>

\* SELECT u.user_id ... WHERE s.session_uuid = ? AND s.expires_at > ?
FindQueryUser(p) ==
  /\ finder[p].pc = "query"
  /\ LET sid == finder[p].sid IN
     \/ /\ sid \in DOMAIN sessDb
        /\ sessDb[sid].expiresAt > now
        /\ finder' = [finder EXCEPT ![p].pc = "expiry", ![p].at = now,
                                    ![p].userID = sessDb[sid].userID]
     \/ finder' = [finder EXCEPT ![p].pc = "done", ![p].at = now,
                                 ![p].via = "db", ![p].err = "err"]
  /\ UNCHANGED <<planVars, imageVars, productVars, now, sessDb, sessCache>>

\* SELECT expires_at ...; if err == nil the entry is cached; return userID
FindQueryExpiry(p) ==
  /\ finder[p].pc = "expiry"
  /\ LET sid == finder[p].sid IN
     \/ sessCache' = Put(sessCache, sid,
                         [userID |-> finder[p].userID,
                          expiresAt |-> sessDb[sid].expiresAt])
     \/ UNCHANGED sessCache
  /\ finder' = [finder EXCEPT ![p].pc = "done", ![p].via = "db",
                              ![p].ret = finder[p].userID,
                              ![p].err = "nil"]
  /\ UNCHANGED <<planVars, imageVars, productVars, now, sessDb>>

InitSession ==
  /\ sessDb = <<>>
  /\ sessCache = <<>>
  /\ finder = [p \in Finders |-> IdleFinder]

\* --------------------------------------------------- ProductRepository
ProductTTL == 5             \* ttl: 5 * time.Minute
ProductCacheLimit == 1000   \* if len(r.cache) > 1000

Listers == 1..NumListers

IdleLister == [pc |-> "idle", key |-> 0, seen |-> {}, call |-> 0,
               queried |-> FALSE, val |-> "none", via |-> "none",
               ret |-> "none"]

\* the calls that have started and not returned
InFlight == {q \in Listers : lister[q].pc \notin {"idle", "done"}}

\* the clock of the product cache, in minutes
Minute ==
  /\ now < MaxMinutes
  /\ now' = now + 1
  /\ UNCHANGED <<planVars, imageVars, sessionVars, productVars>>

\* getFromCache(key) # nil
getFromCache(key) ==
  /\ key \in DOMAIN prodCache
  /\ ~(now - prodCache[key].timestamp > ProductTTL)

cleanupCache(cache) ==
  LET live == {k \in DOMAIN cache : ~(now - cache[k].timestamp > ProductTTL)}
  IN [k \in live |-> cache[k]]

setCache(cache, key, result) ==
  LET stored == Put(cache, key, [result |-> result, timestamp |-> now])
  IN IF Cardinality(DOMAIN stored) > ProductCacheLimit
     THEN cleanupCache(stored)
     ELSE stored

\* ListProducts up to the cache check: a hit returns the cached result
ListGetFromCache(p, key) ==
  /\ lister[p].pc = "idle"
  /\ lister' = [lister EXCEPT ![p] =
       IF getFromCache(key)
       THEN [IdleLister EXCEPT !.pc = "done", !.key = key, !.seen = InFlight,
                               !.via = "cache",
                               !.ret = prodCache[key].result]
       ELSE [IdleLister EXCEPT !.pc = "miss", !.key = key,
                               !.seen = InFlight]]
  /\ UNCHANGED <<planVars, imageVars, sessionVars, now, prodCache, sf>>

\* r.sf.Do(key, fn): join the call in flight for the key, or become it
ListDo(p) ==
  /\ lister[p].pc = "miss"
  /\ LET key == lister[p].key IN
     IF key \in DOMAIN sf
     THEN /\ lister' = [lister EXCEPT ![p].pc = "wait", ![p].call = sf[key]]
          /\ UNCHANGED sf
     ELSE /\ lister' = [lister EXCEPT ![p].pc = "leader", ![p].call = p]
          /\ sf' = Put(sf, key, p)
  /\ UNCHANGED <<planVars, imageVars, sessionVars, now, prodCache>>

\* fn: listProductsInternal runs the query, which yields the rows or fails
listProductsInternal(p) ==
  /\ lister[p].pc = "leader"
  /\ \E val \in {"rows", "err"} :
       lister' = [lister EXCEPT ![p].pc = "queried", ![p].queried = TRUE,
                                ![p].val = val]
  /\ UNCHANGED <<planVars, imageVars, sessionVars, now, prodCache, sf>>

\* the call ends: the key is forgotten and the waiters are released
ListDoDone(p) ==
  /\ lister[p].pc = "queried"
  /\ sf' = Remove(sf, lister[p].key)
  /\ lister' = [lister EXCEPT ![p].pc = "got", ![p].via = "query"]
  /\ UNCHANGED <<planVars, imageVars, sessionVars, now, prodCache>>

\* a waiter receives the value of the call it joined
ListDoShared(p) ==
  /\ lister[p].pc = "wait"
  /\ lister[lister[p].call].pc \in {"got", "done"}
  /\ lister' = [lister EXCEPT ![p].pc = "got", ![p].via = "shared",
                              ![p].val = lister[lister[p].call].val]
  /\ UNCHANGED <<planVars, imageVars, sessionVars, now, prodCache, sf>>

\* after Do: an error is returned, a result is cached and returned
ListReturn(p) ==
  /\ lister[p].pc = "got"
  /\ lister' = [lister EXCEPT ![p].pc = "done", ![p].ret = lister[p].val]
  /\ prodCache' = IF lister[p].val = "err"
                  THEN prodCache
                  ELSE setCache(prodCache, lister[p].key, lister[p].val)
  /\ UNCHANGED <<planVars, imageVars, sessionVars, now, sf>>

InitProduct ==
  /\ prodCache = <<>>
  /\ sf = <<>>
  /\ lister = [p \in Listers |-> IdleLister]

\* the repository after it has cached n keys within the same minute
InitProductWarm ==
  /\ \E n \in {0, ProductCacheLimit} :
       prodCache = [k \in 1..n |-> [result |-> "rows", timestamp |-> 0]]
  /\ sf = <<>>
  /\ lister = [p \in Listers |-> IdleLister]

InitCaches ==
  /\ now = 0
  /\ InitImage
  /\ InitSession

\* ------------------------------------------------------ specifications
Tables(n, maxW, minV, maxV) ==
  [1..n -> [weight : 0..maxW, value : minV..maxV, status : {"shipping"}]]

InitCalls ==
  /\ pc = [c \in Calls |-> "idle"]
  /\ capacity = [c \in Calls |-> 0]
  /\ ctxDone = [c \in Calls |-> FALSE]
  /\ fetched = [c \in Calls |-> <<>>]
  /\ plan = [c \in Calls |-> ZeroPlan]
  /\ txWrites = [c \in Calls |-> {}]
  /\ stale = [c \in Calls |-> {}]
  /\ err = [c \in Calls |-> "none"]
  /\ failedAt = [c \in Calls |-> "none"]
  /\ changedBy = [c \in Calls |-> {}]
  /\ wasDelivering = {}
  /\ updates = 0
  /\ ops = [c \in Calls |-> NoOps]
  /\ lastUpdate = NoUpdate
  /\ InitCaches

Init ==
  /\ db \in Tables(MaxOrders, MaxWeight, 1, MaxValue)
  /\ InitCalls
  /\ InitProduct

GenerateDeliveryPlan(c) ==
  \/ \E cap \in -1..MaxCap : Call(c, cap)
  \/ Cancel(c)
  \/ Fetch(c)
  \/ Select(c)
  \/ Update(c)
  \/ Commit(c)
  \/ Return(c)

NextGen == \E c \in Calls : GenerateDeliveryPlan(c)

Next ==
  \/ NextGen
  \/ \E id \in 1..MaxOrders, st \in Statuses : UpdateOrderStatus(id, st)

Spec == Init /\ [][Next]_vars

\* concurrent GenerateDeliveryPlan calls only
SpecGen == Init /\ [][NextGen]_vars

\* one GenerateDeliveryPlan call on its own
NextOne == GenerateDeliveryPlan(1)

SpecOne == Init /\ [][NextOne]_vars

\* the planner alone: call 1 has just fetched an arbitrary list of orders
Example1 ==
  (1 :> [weight |-> 2, value |-> 3, status |-> "shipping"]) @@
  (2 :> [weight |-> 3, value |-> 4, status |-> "shipping"]) @@
  (3 :> [weight |-> 4, value |-> 5, status |-> "shipping"]) @@
  (4 :> [weight |-> 5, value |-> 6, status |-> "shipping"])

InitPlan ==
  /\ \/ /\ \E n \in 0..PlanOrders : db \in Tables(n, PlanWeight, 0, PlanValue)
        /\ \E cap \in -1..PlanCap :
             capacity = [c \in Calls |-> IF c = 1 THEN cap ELSE 0]
     \/ /\ db = Example1
        /\ capacity = [c \in Calls |-> IF c = 1 THEN 5 ELSE 0]
  /\ pc = [c \in Calls |-> IF c = 1 THEN "fetched" ELSE "idle"]
  /\ ctxDone = [c \in Calls |-> FALSE]
  /\ fetched = [c \in Calls |-> IF c = 1 THEN GetShippingOrders(db) ELSE <<>>]
  /\ plan = [c \in Calls |-> ZeroPlan]
  /\ txWrites = [c \in Calls |-> {}]
  /\ stale = [c \in Calls |-> {}]
  /\ err = [c \in Calls |-> "none"]
  /\ failedAt = [c \in Calls |-> "none"]
  /\ changedBy = [c \in Calls |-> {}]
  /\ wasDelivering = {}
  /\ updates = 0
  /\ ops = [c \in Calls |-> IF c = 1 THEN [fetch |-> 1, update |-> 0] ELSE NoOps]
  /\ lastUpdate = NoUpdate
  /\ InitCaches
  /\ InitProduct

NextPlan == Select(1)

SpecPlan == InitPlan /\ [][NextPlan]_vars

\* the planner run twice: calls 1 and 2 have fetched the same list and were
\* given the same capacity
InitTwice ==
  /\ \/ /\ \E n \in 0..PlanOrders : db \in Tables(n, MaxWeight, 0, MaxValue)
        /\ \E cap \in -1..MaxCap : capacity = [c \in Calls |-> cap]
     \/ /\ db = Example1
        /\ capacity = [c \in Calls |-> 5]
  /\ pc = [c \in Calls |-> "fetched"]
  /\ ctxDone = [c \in Calls |-> FALSE]
  /\ fetched = [c \in Calls |-> GetShippingOrders(db)]
  /\ plan = [c \in Calls |-> ZeroPlan]
  /\ txWrites = [c \in Calls |-> {}]
  /\ stale = [c \in Calls |-> {}]
  /\ err = [c \in Calls |-> "none"]
  /\ failedAt = [c \in Calls |-> "none"]
  /\ changedBy = [c \in Calls |-> {}]
  /\ wasDelivering = {}
  /\ updates = 0
  /\ ops = [c \in Calls |-> [fetch |-> 1, update |-> 0]]
  /\ lastUpdate = NoUpdate
  /\ InitCaches
  /\ InitProduct

NextTwice == \E c \in Calls : Select(c)

SpecTwice == InitTwice /\ [][NextTwice]_vars

\* the repository alone: UpdateStatuses called with arbitrary id lists, which
\* may name an order that does not exist
NextStore ==
  \E orderIDs \in SUBSET (1..(MaxOrders + 1)), newStatus \in Statuses :
    StoreUpdateStatuses(orderIDs, newStatus)

SpecStore == Init /\ [][NextStore]_vars

\* no delivery plan is asked for: the orders table of Example1, no call made
InitIdle ==
  /\ db = Example1
  /\ InitCalls
  /\ InitProduct

\* the image cache of ProductHandler
NextImage ==
  \/ \E key \in ImgKeys, size \in 0..(ImgMaxSize + 1) : ImageCacheSet(key, size)
  \/ \E key \in ImgKeys : ImageCacheGet(key)
  \/ cleanupExpired
  \/ Tick

SpecImage == InitIdle /\ [][NextImage]_vars

\* the session repository
FindUserBySessionID(p) ==
  \/ \E sessionID \in SessionIDs : FindLookup(p, sessionID)
  \/ FindCheckCached(p)
  \/ FindDeleteCached(p)
  \/ FindQueryUser(p)
  \/ FindQueryExpiry(p)

NextSession ==
  \/ \E duration \in 0..MaxDuration : SessionCreate(1, duration)
  \/ \E p \in Finders : FindUserBySessionID(p)
  \/ NewSessionRepository
  \/ Tick

SpecSession == InitIdle /\ [][NextSession]_vars

\* the product repository, cold or holding ProductCacheLimit fresh keys
InitWarm ==
  /\ db = Example1
  /\ InitCalls
  /\ InitProductWarm

ListProducts(p) ==
  \/ \E key \in {1, Cardinality(DOMAIN prodCache) + 1} :
       ListGetFromCache(p, key)
  \/ ListDo(p)
  \/ listProductsInternal(p)
  \/ ListDoDone(p)
  \/ ListDoShared(p)
  \/ ListReturn(p)

NextProduct ==
  \/ \E p \in Listers : ListProducts(p)
  \/ Minute

SpecProduct == InitWarm /\ [][NextProduct]_vars

\* ================================================================ claims
\* the orders of a list with the given ids, in list order
Sub(orders, S) == SelectSeq(orders, LAMBDA o : o.OrderID \in S)

MaxOf(S) == CHOOSE x \in S : \A y \in S : y <= x

\* the largest total value of a set of orders whose total weight is within cap
BestValue(orders, cap) ==
  MaxOf({SumValue(Sub(orders, S)) :
           S \in {T \in SUBSET Ids(orders) : SumWeight(Sub(orders, T)) <= cap}})

Planned(c) == pc[c] = "planned" /\ capacity[c] >= 0

\* C2: for every fetched list and capacity >= 0 the TotalValue of the plan is
\* the maximum total value over all subsets of the fetched orders whose total
\* weight is within the capacity; the orders w2/v3, w3/v4, w4/v5, w5/v6 with
\* capacity 5 give 7.
C2_Optimal ==
  \A c \in Calls :
    Planned(c) =>
      /\ plan[c].TotalValue = BestValue(fetched[c], capacity[c])
      /\ (fetched[c] = GetShippingOrders(Example1) /\ capacity[c] = 5
            => plan[c].TotalValue = 7)

C2_Witness ==
  \E c \in Calls :
    /\ Planned(c)
    /\ fetched[c] = GetShippingOrders(Example1)
    /\ capacity[c] = 5
    /\ plan[c].TotalValue = 7

\* C3: for every fetched list and capacity >= 0 the total weight of the
\* returned orders, which is the plan's TotalWeight, is at most the capacity.
C3_WeightWithinCapacity ==
  \A c \in Calls :
    Planned(c) =>
      /\ plan[c].TotalWeight = SumWeight(plan[c].Orders)
      /\ plan[c].TotalWeight <= capacity[c]

C3_Witness ==
  \E c \in Calls :
    /\ Planned(c)
    /\ capacity[c] >= 2
    /\ Len(plan[c].Orders) >= 2
    /\ Len(plan[c].Orders) < Len(fetched[c])
    /\ plan[c].TotalWeight = capacity[c]

\* C8: in every plan returned by selectOrdersForDelivery TotalWeight is the
\* sum of the weights of the returned orders and TotalValue is the sum of
\* their values.
C8_TotalsMatchSelection ==
  \A c \in Calls :
    Planned(c) =>
      /\ plan[c].TotalWeight = SumWeight(plan[c].Orders)
      /\ plan[c].TotalValue = SumValue(plan[c].Orders)

Succeeded(c) == pc[c] \in {"committed", "returned"} /\ err[c] = "none"

C4_CommitCorrect ==
  \A c \in Calls :
    Succeeded(c) => changedBy[c] = Ids(plan[c].Orders)

C4_Witness ==
  \E c \in Calls :
    /\ pc[c] = "returned" /\ err[c] = "none"
    /\ changedBy[c] # {}
    /\ changedBy[c] # DOMAIN db

\* C5: a call in which the fetch, the planning or the status update (or the
\* commit) fails returns that error and a nil plan, and no order's status was
\* changed by it; a call that crashed changed no status either.
C5_AtomicFailure ==
  \A c \in Calls :
    /\ failedAt[c] # "none" =>
         /\ pc[c] \in {"returned", "panicked"}
         /\ err[c] # "none"
         /\ changedBy[c] = {}
         /\ txWrites[c] = {}
    /\ (pc[c] = "returned" /\ err[c] # "none") => plan[c] = ZeroPlan

\* the status update of a non-empty plan failed
C5_Witness ==
  \E c \in Calls :
    /\ pc[c] = "returned"
    /\ failedAt[c] = "planned"
    /\ err[c] = "store"

\* C6: an order changes from 'shipping' to 'delivering' at most once, and only
\* by the commit of a GenerateDeliveryPlan call whose plan holds the order.
C6_DeliveringOnlyByPlanOnce ==
  [][\A id \in DOMAIN db :
       (db[id].status = "shipping" /\ db'[id].status = "delivering") =>
         /\ id \notin wasDelivering
         /\ \E c \in Calls : /\ pc[c] = "updated"
                             /\ pc'[c] = "committed"
                             /\ id \in Ids(plan[c].Orders)]_vars

\* C7 as stated: a call whose context is cancelled at any point before it
\* completes returns the cancellation error and has changed no status.
C7_CancelAnyTime ==
  \A c \in Calls :
    (pc[c] = "returned" /\ ctxDone[c]) =>
      (err[c] = "cancel" /\ changedBy[c] = {})

PreCommit == {"begun", "fetched", "planned", "updated"}

\* C7 amended: a call whose context is cancelled before its transaction has
\* committed never commits: none of its steps changes a status, and when it
\* returns it returns the cancellation error and no plan.
C7_CancelBeforeCommit ==
  [][\A c \in Calls :
       (pc[c] \in PreCommit /\ ctxDone'[c] /\ pc'[c] # pc[c]) =>
         /\ pc'[c] # "committed"
         /\ db' = db
         /\ changedBy'[c] = {}
         /\ pc'[c] = "returned" => (err'[c] = "cancel" /\ plan'[c] = ZeroPlan)]_vars

\* cancelled after the status update was issued: the commit is refused
C7_Witness ==
  \E c \in Calls :
    /\ pc[c] = "returned"
    /\ ctxDone[c]
    /\ failedAt[c] = "updated"
    /\ err[c] = "cancel"
    /\ changedBy[c] = {}

\* C9: a successful call that fetched no order, or was given capacity 0,
\* returns a plan with no orders, TotalWeight 0 and TotalValue 0, and changed
\* no status.
C9_EmptyPlan ==
  \A c \in Calls :
    (pc[c] = "committed" /\ (Len(fetched[c]) = 0 \/ capacity[c] = 0)) =>
      /\ plan[c].Orders = <<>>
      /\ plan[c].TotalWeight = 0
      /\ plan[c].TotalValue = 0
      /\ changedBy[c] = {}

\* C10: the orders of a plan are fetched orders of the same call, and no order
\* id occurs twice among them.
C10_SubsetNoDuplicates ==
  \A c \in Calls :
    pc[c] \in {"planned", "updated", "committed"} =>
      /\ \A k \in 1..Len(plan[c].Orders) :
           \E j \in 1..Len(fetched[c]) : plan[c].Orders[k] = fetched[c][j]
      /\ Cardinality(Ids(plan[c].Orders)) = Len(plan[c].Orders)

C10_Witness ==
  \E c \in Calls :
    /\ pc[c] = "planned"
    /\ Len(plan[c].Orders) >= 2
    /\ Len(plan[c].Orders) < Len(fetched[c])

\* C11: a call with a negative capacity is rejected with an error before any
\* store operation: it invokes neither the fetch nor the status update, it
\* never crashes, and it returns an error.
C11_NegativeCapacityRejected ==
  \A c \in Calls :
    capacity[c] < 0 =>
      /\ ops[c] = NoOps
      /\ pc[c] \in {"begun", "returned"}
      /\ pc[c] = "returned" => err[c] # "none"

\* C12: a call of UpdateStatuses with the ids orderIDs either returns nil,
\* and then every given id is an order whose status is newStatus and no
\* other order changed, or returns an error, and then no status changed.
C12_UpdateStatusesAllOrNothing ==
  [][updates' # updates =>
       LET u == lastUpdate' IN
       \/ /\ u.ret = "nil"
          /\ \A id \in u.orderIDs :
               id \in DOMAIN db' /\ db'[id].status = u.newStatus
          /\ \A id \in DOMAIN db \ u.orderIDs : db'[id] = db[id]
       \/ /\ u.ret = "err"
          /\ db' = db]_vars

\* a is b with some elements left out
RECURSIVE IsSubseq(_, _)
IsSubseq(a, b) ==
  IF a = <<>> THEN TRUE
  ELSE IF b = <<>> THEN FALSE
  ELSE IF a[1] = b[1] THEN IsSubseq(Tail(a), Tail(b))
  ELSE IsSubseq(a, Tail(b))

\* C13: the orders of a plan are in the relative order in which
\* GetShippingOrders returned them (ascending creation order): the plan's
\* orders are a subsequence of the fetched orders.
C13_PlanInFetchOrder ==
  \A c \in Calls :
    Planned(c) =>
      /\ IsSubseq(plan[c].Orders, fetched[c])
      /\ \A j, k \in 1..Len(plan[c].Orders) :
           j < k => plan[c].Orders[j].OrderID < plan[c].Orders[k].OrderID

\* two orders chosen out of more, the earlier one first
C13_Witness ==
  \E c \in Calls :
    /\ Planned(c)
    /\ Len(fetched[c]) > 2
    /\ Len(plan[c].Orders) = 2
    /\ plan[c].Orders[1].OrderID = 1
    /\ plan[c].Orders[2].OrderID = 2

\* C14: within one call the fetch is invoked first and once, planning runs
\* only on a completed fetch and before any status update, and the status
\* update is invoked only on a completed plan and once.
C14_StepOrder ==
  [][\A c \in Calls :
       /\ ops'[c].fetch # ops[c].fetch =>
            (pc[c] = "begun" /\ ops[c] = NoOps /\ ops'[c].fetch = 1)
       /\ (pc[c] # "fetched" /\ pc'[c] = "fetched") => pc[c] = "begun"
       /\ (pc[c] = "fetched" /\ pc'[c] # "fetched") =>
            (ops[c] = [fetch |-> 1, update |-> 0] /\ ops'[c] = ops[c])
       /\ (pc[c] # "planned" /\ pc'[c] = "planned") => pc[c] = "fetched"
       /\ ops'[c].update # ops[c].update =>
            /\ pc[c] = "planned"
            /\ ops[c] = [fetch |-> 1, update |-> 0]
            /\ ops'[c].update = 1]_vars

\* a call went through fetch, planning and status update and returned
C14_Witness ==
  \E c \in Calls :
    /\ pc[c] = "returned" /\ err[c] = "none"
    /\ ops[c] = [fetch |-> 1, update |-> 1]
    /\ changedBy[c] # {}

RECURSIVE SpecifiedWalk(_, _, _, _, _)
SpecifiedWalk(orders, dp, i, w, sel) ==
  IF i = 0 THEN sel
  ELSE LET order == orders[i] IN
       IF w >= order.Weight /\ dp[i-1][w - order.Weight] + order.Value = dp[i][w]
       THEN SpecifiedWalk(orders, dp, i - 1, w - order.Weight,
                          Append(sel, order))
       ELSE SpecifiedWalk(orders, dp, i - 1, w, sel)

\* C16: for every list of orders and capacity >= 0 the orders of the plan are
\* the selection of the specified walk (i from n down to 1, w from the
\* capacity, order i selected iff w >= weight(i) and
\* dp[i-1][w-weight(i)] + value(i) = dp[i][w]), reversed.
C16_ReconstructionEquivalence ==
  \A c \in Calls :
    Planned(c) =>
      LET n  == Len(fetched[c])
          dp == FillDP(fetched[c], capacity[c], n)
      IN plan[c].Orders =
           Reverse(SpecifiedWalk(fetched[c], dp, n, capacity[c], <<>>))

\* C17: of two fetched orders with equal weight and equal value the plan
\* never holds the earlier-fetched one without the later-fetched one.
C17_TieBreakLater ==
  \A c \in Calls :
    Planned(c) =>
      \A j, k \in 1..Len(fetched[c]) :
        (/\ j < k
         /\ fetched[c][j].Weight = fetched[c][k].Weight
         /\ fetched[c][j].Value = fetched[c][k].Value
         /\ fetched[c][j].OrderID \in Ids(plan[c].Orders)) =>
          fetched[c][k].OrderID \in Ids(plan[c].Orders)

\* two equal orders of which only one fits: the later one is planned
C17_Witness ==
  \E c \in Calls :
    /\ Planned(c)
    /\ Len(fetched[c]) = 2
    /\ fetched[c][1].Weight = fetched[c][2].Weight
    /\ fetched[c][1].Value = fetched[c][2].Value
    /\ Ids(plan[c].Orders) = {fetched[c][2].OrderID}

C19_NoRetry ==
  \A c \in Calls :
    /\ failedAt[c] = "begun" =>
         /\ pc[c] = "returned"
         /\ err[c] \in {"store", "cancel"}
         /\ ops[c] = [fetch |-> 1, update |-> 0]
    /\ failedAt[c] = "planned" =>
         /\ pc[c] = "returned"
         /\ err[c] \in {"store", "cancel"}
         /\ ops[c] = [fetch |-> 1, update |-> 1]
    /\ (pc[c] = "returned" /\ err[c] = "store") =>
         (ops[c].fetch <= 1 /\ ops[c].update <= 1)

\* the fetch failed with a store error
C19_Witness ==
  \E c \in Calls :
    /\ pc[c] = "returned"
    /\ failedAt[c] = "begun"
    /\ err[c] = "store"
    /\ ops[c] = [fetch |-> 1, update |-> 0]

\* C20: a call of UpdateOrderStatus hands exactly one order id to the store;
\* when it succeeds that order has the new status, when it fails nothing
\* changed; no other order changes, and no GenerateDeliveryPlan call fetches,
\* plans or moves because of it.
C20_UpdateOrderStatusFrame ==
  [][updates' # updates =>
       LET u == lastUpdate' IN
       /\ Cardinality(u.orderIDs) = 1
       /\ \A id \in DOMAIN db \ u.orderIDs : db'[id] = db[id]
       /\ \A id \in DOMAIN db \cap u.orderIDs :
            /\ db'[id].weight = db[id].weight
            /\ db'[id].value = db[id].value
            /\ u.ret = "nil" => db'[id].status = u.newStatus
            /\ u.ret = "err" => db'[id].status = db[id].status
       /\ UNCHANGED <<pc, fetched, plan, ops, txWrites, changedBy, err>>]_vars

\* order 1 was set to 'delivered' while order 2 is still 'shipping'
C20_Witness ==
  /\ lastUpdate = [orderIDs |-> {1}, newStatus |-> "delivered", ret |-> "nil"]
  /\ db[1].status = "delivered"
  /\ db[2].status = "shipping"

\* C21: the sizes of the entries of the image cache never add up to more
\* than maxSize.
C21_ImageCacheWithinMaxSize == TotalSize(imgCache) <= ImgMaxSize

\* C25: a Get that reports a hit found an entry for the key that was set at
\* most maxAge ago, and returns that entry; Get leaves the cache as it is,
\* whether or not cleanupExpired has run.
C25_ImageCacheFresh ==
  [][imgGot' # imgGot =>
       /\ imgCache' = imgCache
       /\ imgGot'.found =>
            /\ imgGot'.key \in DOMAIN imgCache
            /\ now - imgCache[imgGot'.key].Timestamp <= ImgMaxAge
            /\ imgGot'.size = imgCache[imgGot'.key].Size]_vars

\* an entry older than maxAge is still in the cache and Get reports a miss
C25_Witness ==
  /\ imgGot.key \in DOMAIN imgCache
  /\ imgGot.at = now
  /\ now - imgCache[imgGot.key].Timestamp > ImgMaxAge
  /\ ~imgGot.found

\* what holds of a FindUserBySessionID call p that has returned a user id
Answered(p) == finder[p].pc = "done" /\ finder[p].err = "nil"

\* C22: a call returns a user id only for a stored session of that user
\* whose expiry is later than the time the call read, which is not before
\* the call began, and an answer from the cache used an entry with that
\* expiry; a call that finds its cached entry expired goes on to remove the
\* key from the cache and to ask the database.
C22_SessionExpiry ==
  [][\A p \in Finders :
       /\ Answered(p)' =>
            LET f == finder'[p] IN
            /\ f.sid \in DOMAIN sessDb'
            /\ f.ret = sessDb'[f.sid].userID
            /\ sessDb'[f.sid].expiresAt > f.at
            /\ f.at >= f.t0
            /\ f.via = "cache" => f.cached.expiresAt > f.at
       /\ (finder[p].pc = "cached" /\ finder'[p].pc # "cached"
            /\ ~(now < finder[p].cached.expiresAt)) =>
            finder'[p].pc \in {"expired", "idle"}
       /\ (finder[p].pc = "expired" /\ finder'[p].pc # "expired") =>
            \/ finder'[p].pc = "query" /\ finder[p].sid \notin DOMAIN sessCache'
            \/ finder'[p].pc = "idle"]_vars

\* a call found its cached entry expired, removed it, and got an error from
\* the database
C22_Witness ==
  \E p \in Finders :
    /\ finder[p].pc = "done"
    /\ finder[p].cached # NoEntry
    /\ finder[p].via = "db"
    /\ finder[p].err = "err"
    /\ finder[p].sid \in DOMAIN sessDb
    /\ finder[p].sid \notin DOMAIN sessCache

\* C23: the product cache holds at most ProductCacheLimit entries whenever
\* no setCache is running (setCache is one step).
C23_ProductCacheLimit == Cardinality(DOMAIN prodCache) <= ProductCacheLimit

\* two ListProducts calls for the same key that both missed the cache and
\* ran at the same time: one began while the other had not returned
Concurrent(p, q) ==
  /\ p # q
  /\ lister[p].key = lister[q].key
  /\ lister[p].pc \notin {"idle"} /\ lister[q].pc \notin {"idle"}
  /\ lister[p].via # "cache" /\ lister[q].via # "cache"
  /\ p \in lister[q].seen \/ q \in lister[p].seen

\* C24: of two concurrent ListProducts calls for one key that both missed
\* the cache at most one ran listProductsInternal, and once both have
\* returned they returned the same result.
C24_SingleFlight ==
  \A p, q \in Listers :
    Concurrent(p, q) =>
      /\ ~(lister[p].queried /\ lister[q].queried)
      /\ (lister[p].pc = "done" /\ lister[q].pc = "done") =>
           lister[p].ret = lister[q].ret

====
